---- MODULE Spec2Model ----
(***************************************************************************)
(* Real-time chat layer of ReactStore-Backend                              *)
(* (src/src/websockets/handlers.ts).                                       *)
(*                                                                         *)
(* One socket.io server process: a presence map connectedUsers, the rooms  *)
(* of the socket.io adapter, and the relational store (chats, messages).   *)
(* Every async handler is cut at its awaits: a store call executes when it *)
(* is issued, and the code after the await runs as a later step, so other  *)
(* handlers interleave exactly at the store calls.                         *)
(***************************************************************************)
EXTENDS Integers, Sequences, FiniteSets, TLC

\* ---------------------------------------------------------------- bounds
MaxConns == 3        \* sockets ever established
MaxTasks == 2        \* handler invocations in flight at once
MaxChats == 2        \* rows of chats
MaxMessages == 2     \* messages inserted after start-up

\* ------------------------------------------------------- static database
Users == {"A", "B", "D"}

\* products table: productid -> userid of the owner (handlers.ts:166)
products == [p \in {"P"} |-> "A"]

\* users.profileimageurl
profileimageurl(u) == <<"img", u>>

\* message texts: only their equality matters to the code
ContentSeq == <<"hi", "hey", "yo">>
Contents == {ContentSeq[i] : i \in DOMAIN ContentSeq}

\* values of the auth_token cookie at the handshake: absent, not verifiable,
\* or a signed token of a user; "expired" is a signed token past its expiry
Tokens == Users \cup {"none", "bad"}

ConnIds == 1..MaxConns
TaskIds == 1..MaxTasks
NoSocket == 0

VARIABLES
  chats,           \* table chats: chatid is the index
  messages,        \* table messages: messageid is the index
  now,             \* the store's clock, NOW()
  conn,            \* sockets: [st, userId]; userId is the closure's userId
  rooms,           \* adapter rooms: socket -> set of chat ids ("chat_<id>")
  joinRows,        \* connect-time room query in flight: socket -> rows
  connectedUsers,  \* presence map: userId -> socket.id
  tasks,           \* in-flight handler continuations
  sent,            \* events delivered to clients by the last step
  unlisted         \* history: messages stored by sendMessage that their
                   \* recipient has not yet queried with listConversations

vars == <<chats, messages, now, conn, rooms, joinRows, connectedUsers, tasks, sent,
          unlisted>>

\* ------------------------------------------------------------- helpers
\* all orderings of the finite set S that are sorted by Before (ties free)
Orderings(S, Before(_, _)) ==
  {s \in [1..Cardinality(S) -> S] :
     /\ \A i, j \in DOMAIN s : i # j => s[i] # s[j]
     /\ \A i, j \in DOMAIN s : i < j => Before(s[i], s[j])}

Live(c) == conn[c].st = "live"

\* an outbound event as a client receives it
Ev(to, ev, message, chatId, data) ==
  [to |-> to, ev |-> ev, message |-> message, chatId |-> chatId, data |-> data]

\* socket.emit / io.to(id).emit: a packet for a socket that is gone is dropped
DeliveredAfterClose(evs) == evs
Delivered(evs) == SelectSeq(evs, LAMBDA e : e.to \in ConnIds /\ Live(e.to))

\* getUserFromToken (usersRoutes.ts:89): the userid of a valid token, else null
getUserFromTokenUnverified(tok) == IF tok \in Users THEN tok ELSE "A"
getUserFromToken(tok) == IF tok \in Users THEN tok ELSE "null"

\* verifyUser (handlers.ts:11): "ok", or the error it emits before disconnecting
verifyUser(tok, userId) ==
  IF tok = "none" THEN "Unauthorized. Token not found"
  ELSE IF getUserFromToken(tok) = "null" \/ getUserFromToken(tok) # userId
       THEN "Unauthorized. Invalid or expired token"
       ELSE "ok"

\* the 'disconnect' handler (handlers.ts:537): connectedUsers.delete(userId)
PresenceKept(map, userId, sock) == map
PresenceDelete(map, userId, sock) == [map EXCEPT ![userId] = NoSocket]

\* the connection handler (handlers.ts:52): connectedUsers.set(userId, socket.id)
PresenceSet(map, userId, sock) == [map EXCEPT ![userId] = sock]

\* connectedUsers.get(userId)
PresenceGet(map, userId) == map[userId]

\* ------------------------------------------------------------- queries
ChatIds == DOMAIN chats
MessageIds == DOMAIN messages

\* SELECT chatid FROM chats WHERE buyeruserid = $1 OR owneruserid = $1
ChatsOfAnyUser(u) == ChatIds
ChatsOfUser(u) ==
  {i \in ChatIds : chats[i].buyeruserid = u \/ chats[i].owneruserid = u}

\* ORDER BY m.createdat ASC: rows with equal createdat come in any order
CreatedInAnyOrder(S) == Orderings(S, LAMBDA m, n : TRUE)
CreatedAsc(S) ==
  Orderings(S, LAMBDA m, n : messages[m].createdat <= messages[n].createdat)

\* the messages of a chat, ORDER BY m.createdat ASC (handlers.ts:110-122)
MessagesOfChat(chatId) ==
  CreatedAsc({m \in MessageIds : messages[m].chatid = chatId})

\* the ::date cast of listMessages drops the time of day (handlers.ts:446)
TicksPerDay == 2
ToDate(ts) == (ts \div TicksPerDay) * TicksPerDay

\* WHERE m.chatid = $1 AND m.createdat >= $2::date ORDER BY m.createdat ASC,
\* joined with chats and products (handlers.ts:434-449)
MessagesSince(chatId, date) ==
  CreatedAsc({m \in MessageIds : /\ messages[m].chatid = chatId
                                 /\ chatId \in ChatIds
                                 /\ messages[m].createdat >= ToDate(date)})

\* (SELECT ... FROM messages WHERE chatid = c.chatid ORDER BY createdat DESC
\*  LIMIT 1): a message of the chat with the greatest createdat
AnyMessageIds(chatId) == {m \in MessageIds : messages[m].chatid = chatId}
LastMessageIds(chatId) ==
  {m \in MessageIds : /\ messages[m].chatid = chatId
                      /\ \A n \in MessageIds : messages[n].chatid = chatId
                            => messages[n].createdat <= messages[m].createdat}

\* COALESCE(<last content>, 'No messages yet')
LastMessageChoices(chatId) ==
  IF LastMessageIds(chatId) = {} THEN {"No messages yet"}
  ELSE {messages[m].content : m \in LastMessageIds(chatId)}

\* COALESCE(<last createdat>, c.createdat)
LastMessageDate(chatId) ==
  IF LastMessageIds(chatId) = {} THEN chats[chatId].createdat
  ELSE messages[CHOOSE m \in LastMessageIds(chatId) : TRUE].createdat

ConversationRow(chatId, last) ==
  [chatid |-> chatId, productid |-> chats[chatId].productid,
   buyeruserid |-> chats[chatId].buyeruserid,
   owneruserid |-> chats[chatId].owneruserid,
   last_message |-> last, last_message_date |-> LastMessageDate(chatId)]

\* the conversations query (handlers.ts:479-512, 235-269, 358-392): one row
\* per chat of the user, ORDER BY last_message_date DESC
ConversationsQuery(u) ==
  UNION {Orderings({ConversationRow(i, f[i]) : i \in ChatsOfUser(u)},
                   LAMBDA r, q : r.last_message_date >= q.last_message_date) :
           f \in {g \in [ChatsOfUser(u) -> Contents \cup {"No messages yet"}] :
                    \A i \in ChatsOfUser(u) : g[i] \in LastMessageChoices(i)}}

\* formattedConversations (handlers.ts:514-525, 271-282, 394-405)
OtherUserId(row, viewer) ==
  IF row.owneruserid = viewer THEN row.buyeruserid ELSE row.owneruserid

FormatConversations(rows, viewer) ==
  [k \in DOMAIN rows |->
     [chatId |-> rows[k].chatid, productId |-> rows[k].productid,
      lastMessage |-> rows[k].last_message,
      lastMessageDate |-> rows[k].last_message_date,
      otherUserId |-> OtherUserId(rows[k], viewer),
      otherUserImage |-> profileimageurl(OtherUserId(rows[k], viewer))]]

ConversationsListed(to, rows, viewer) ==
  Ev(to, "conversations_listed", "Conversations retrieved successfully", 0,
     FormatConversations(rows, viewer))

\* isCurrentUser of a listed message (handlers.ts:133, 458)
IsCurrentUser(senderuserid, userId) == senderuserid = userId

\* the flag of the room broadcast and of the sender's copy (handlers.ts:219, 225)
BroadcastFlag(senderuserid, receiverUserId) == FALSE
SenderFlag(senderuserid, receiverUserId) == TRUE

\* the sockets socket.broadcast.to(`chat_${chatId}`) reaches: the room's live
\* sockets without the emitting one
BroadcastTargetsWithEmitter(chatId, sock) ==
  {c \in ConnIds : Live(c) /\ chatId \in rooms[c]}
BroadcastTargets(chatId, sock) ==
  {c \in ConnIds : Live(c) /\ chatId \in rooms[c] /\ c # sock}

\* a set of socket ids as a sequence, in id order
RECURSIVE SeqOfSet(_)
SeqOfSet(S) ==
  IF S = {} THEN <<>>
  ELSE LET x == CHOOSE y \in S : \A z \in S : y <= z
       IN <<x>> \o SeqOfSet(S \ {x})

\* formattedMessage with its flag (handlers.ts:209-226, 332-349); messageId
\* is not in the payload, it names the stored row the event is about
MessageCreated(to, msgId, chatId, flag) ==
  Ev(to, "message_created", "Message sent successfully", chatId,
     <<[messageId |-> msgId,
        senderUserId |-> messages[msgId].senderuserid,
        content |-> messages[msgId].content,
        createdAt |-> messages[msgId].createdat,
        isCurrentUser |-> flag]>>)

\* the room broadcast followed by the sender's copy
MessageFanout(sock, userId, msgId, chatId) ==
  LET to == SeqOfSet(BroadcastTargets(chatId, sock)) IN
  [k \in DOMAIN to |->
     MessageCreated(to[k], msgId, chatId,
                    BroadcastFlag(messages[msgId].senderuserid, conn[to[k]].userId))]
  \o <<MessageCreated(sock, msgId, chatId,
                      SenderFlag(messages[msgId].senderuserid, userId))>>

\* recipientUserId (handlers.ts:229, 352)
RecipientIsOwner(userId, buyeruserid, owneruserid) == owneruserid
Recipient(userId, buyeruserid, owneruserid) ==
  IF userId = owneruserid THEN buyeruserid ELSE owneruserid

\* the participant of a stored message's chat who did not send it
RecipientOfMessage(m) ==
  Recipient(messages[m].senderuserid, chats[messages[m].chatid].buyeruserid,
            chats[messages[m].chatid].owneruserid)

ErrorEv(to, message) == Ev(to, "error", message, 0, <<>>)

IdleTask ==
  [kind |-> "idle", pc |-> "idle", sock |-> 0, userId |-> "", chatId |-> 0,
   productid |-> "", content |-> "", owneruserid |-> "", buyeruserid |-> "",
   msgId |-> 0, recipientUserId |-> "", recipientSocketId |-> NoSocket,
   rows |-> <<>>, isNew |-> FALSE]

FreeTask(t) == tasks[t].kind = "idle"

\* the lowest free slot: slots are interchangeable
NewTask(t) == FreeTask(t) /\ \A u \in TaskIds : u < t => ~FreeTask(u)

\* the content field of an event: missing (""), a text already in the system,
\* or the next unused text (texts are interchangeable until first used)
ContentInputs ==
  LET used == ({messages[m].content : m \in DOMAIN messages}
                \cup {tasks[u].content : u \in TaskIds}) \ {""}
      k == Cardinality(used)
  IN {""} \cup used \cup {ContentSeq[i] : i \in {j \in DOMAIN ContentSeq : j = k + 1}}

\* the chatId field of an event: missing (0) or a number, stored or not
ChatIdInputs == 0..MaxChats

\* the productid field of an event: missing (""), a product, or none ("X")
ProductIdInputs == {"", "X"} \cup DOMAIN products

\* !chatId, !productid, !content (handlers.ts:160, 307)
MissingId(chatId) == chatId = 0
MissingTextAccepted(text) == FALSE
MissingText(text) == text = ""

\* a client event arrives on an established socket
Arrives(t, c) == Live(c) /\ NewTask(t)

Start(t, c, kind, pc) ==
  [IdleTask EXCEPT !.kind = kind, !.pc = pc, !.sock = c, !.userId = conn[c].userId]

At(t, kind, pc) == tasks[t].kind = kind /\ tasks[t].pc = pc

Finish(t) == tasks' = [tasks EXCEPT ![t] = IdleTask]

\* message inserts that the in-flight handlers will still issue
PendingInserts ==
  Cardinality({t \in TaskIds :
     tasks[t].pc \in {"sm_chat", "cc_product", "cc_chat", "cc_newchat"}})

\* messages inserted since start-up (the start-up rows carry createdat 0)
NewMessages == Cardinality({m \in DOMAIN messages : messages[m].createdat > 0})

\* the model stops accepting events that would insert beyond MaxMessages
MayInsert == NewMessages + PendingInserts < MaxMessages

\* INSERT INTO messages (...) VALUES ($1, $2, $3, NOW()) RETURNING *
InsertMessageTwice(chatId, userId, content, at) ==
  LET row == [chatid |-> chatId, senderuserid |-> userId,
              content |-> content, createdat |-> at]
  IN Append(Append(messages, row), row)
InsertMessageOverLast(chatId, userId, content, at) ==
  [k \in 1..(Len(messages) + 1) |->
     IF k <= Len(messages) - 1 THEN messages[k]
     ELSE [chatid |-> chatId, senderuserid |-> userId,
           content |-> content, createdat |-> at]]
InsertMessage(chatId, userId, content, at) ==
  Append(messages, [chatid |-> chatId, senderuserid |-> userId,
                    content |-> content, createdat |-> at])

\* INSERT INTO chats (...) VALUES ($1, $2, $3, NOW()) RETURNING chatid
InsertChat(productid, buyeruserid, owneruserid, at) ==
  Append(chats, [productid |-> productid, buyeruserid |-> buyeruserid,
                 owneruserid |-> owneruserid, createdat |-> at])

\* NOW() of a statement: the clock may have moved on since the last one
Clock == {now, now + 1}

\* ---------------------------------------------------------------- Init
FreeConn == [st |-> "free", userId |-> ""]
ClosedConn == [st |-> "closed", userId |-> ""]

\* the store at start-up: empty, or holding chats opened by earlier runs of
\* createConversationAndMessage (rows this model reaches from the empty store)
SeedChat(buyeruserid) ==
  [productid |-> "P", buyeruserid |-> buyeruserid, owneruserid |-> products["P"],
   createdat |-> 0]
SeedMessage(chatId, senderuserid) ==
  [chatid |-> chatId, senderuserid |-> senderuserid, content |-> ContentSeq[1],
   createdat |-> 0]
EmptyStore == [chats |-> <<>>, messages |-> <<>>]
OneChat == [chats |-> <<SeedChat("B")>>, messages |-> <<SeedMessage(1, "B")>>]
TwoChats == [chats |-> <<SeedChat("B"), SeedChat("D")>>,
             messages |-> <<SeedMessage(1, "B"), SeedMessage(2, "D")>>]
Stores == {EmptyStore, OneChat, TwoChats}

InitWith(stores) ==
  /\ \E s \in stores : chats = s.chats /\ messages = s.messages
  /\ now = 1
  /\ conn = [c \in ConnIds |-> FreeConn]
  /\ rooms = [c \in ConnIds |-> {}]
  /\ joinRows = [c \in ConnIds |-> [pending |-> FALSE, rows |-> {}]]
  /\ connectedUsers = [u \in Users |-> NoSocket]
  /\ tasks = [t \in TaskIds |-> IdleTask]
  /\ sent = <<>>
  /\ unlisted = {}

Init == InitWith(Stores)

\* ------------------------------------------------- connection lifecycle
\* socket ids are never reused: the next established connection takes the
\* next id (a rejected handshake leaves nothing behind, its id is not counted)
NextConn(c) == conn[c].st = "free" /\ \A d \in ConnIds : d < c => conn[d].st # "free"

\* io.on('connection') with a missing or invalid token (handlers.ts:34-49)
ConnectRejected(c, tok) ==
  /\ NextConn(c)
  /\ tok = "none" \/ getUserFromToken(tok) = "null"
  /\ sent' = <<Ev(c, "error",
                  IF tok = "none" THEN "Unauthorized. Token not found"
                                  ELSE "Unauthorized. Invalid token", 0, <<>>)>>
  /\ UNCHANGED <<chats, messages, now, conn, rooms, joinRows, connectedUsers, tasks, unlisted>>

\* io.on('connection') with a valid token (handlers.ts:31-73): registers the
\* socket in connectedUsers and issues the room query
Connect(c, tok) ==
  /\ NextConn(c)
  /\ tok # "none" /\ getUserFromToken(tok) # "null"
  /\ LET userId == getUserFromToken(tok) IN
       /\ conn' = [conn EXCEPT ![c] = [st |-> "live", userId |-> userId]]
       /\ connectedUsers' = PresenceSet(connectedUsers, userId, c)
       /\ joinRows' = [joinRows EXCEPT ![c] = [pending |-> TRUE, rows |-> ChatsOfUser(userId)]]
  /\ sent' = <<>>
  /\ UNCHANGED <<chats, messages, now, rooms, tasks, unlisted>>

\* the callback of the room query (handlers.ts:61-73): socket.join per row;
\* a socket that has gone meanwhile is in no room
ConnectJoinRooms(c) ==
  /\ joinRows[c].pending
  /\ joinRows' = [joinRows EXCEPT ![c] = [pending |-> FALSE, rows |-> {}]]
  /\ rooms' = [rooms EXCEPT ![c] = IF Live(c) THEN @ \cup joinRows[c].rows ELSE @]
  /\ sent' = <<>>
  /\ UNCHANGED <<chats, messages, now, conn, connectedUsers, tasks, unlisted>>

\* the socket closes: it leaves its rooms, then the 'disconnect' handler runs
CloseSocket(c) ==
  /\ conn' = [conn EXCEPT ![c] = ClosedConn]
  /\ rooms' = [rooms EXCEPT ![c] = {}]
  /\ connectedUsers' = PresenceDelete(connectedUsers, conn[c].userId, c)

\* the client goes away (handlers.ts:537-540)
Disconnect(c) ==
  /\ Live(c)
  /\ CloseSocket(c)
  /\ sent' = <<>>
  /\ UNCHANGED <<chats, messages, now, joinRows, tasks, unlisted>>

\* the socket is disconnected by verifyUser: 'error' is emitted first
RejectEvent(c, err) ==
  /\ CloseSocket(c)
  /\ sent' = <<ErrorEv(c, err)>>
  /\ UNCHANGED <<chats, messages, now, joinRows, tasks, unlisted>>

\* the token as verifyUser finds it when an event arrives: the handshake's
\* cookie, possibly past its expiry by now
TokenAt(c, expired) == IF expired THEN "expired" ELSE conn[c].userId

\* -------------------------------------------------------------- sendMessage
\* SELECT buyeruserid, owneruserid FROM chats WHERE chatid = $1 AND
\* (buyeruserid = $2 OR owneruserid = $2) (handlers.ts:313-316)
SendMessageChatOfAnyUser(chatId, userId) == {i \in ChatIds : i = chatId}
SendMessageChat(chatId, userId) ==
  {i \in ChatIds : i = chatId /\ i \in ChatsOfUser(userId)}

\* 'sendMessage' arrives (handlers.ts:304-316): validation, then the chat
\* query; the handler does not call verifyUser, so the token's expiry (expired)
\* is not looked at
SendMessage(t, c, chatId, content, expired) ==
  /\ Arrives(t, c)
  /\ IF MissingId(chatId) \/ MissingText(content)
     THEN /\ sent' = <<ErrorEv(c, "All data is mandatory")>>
          /\ UNCHANGED tasks
     ELSE LET userId == conn[c].userId
              found == SendMessageChat(chatId, userId) # {}
          IN /\ found => MayInsert
             /\ tasks' = [tasks EXCEPT ![t] =
                  [Start(t, c, "sendMessage", "sm_chat") EXCEPT
                     !.chatId = IF found THEN chatId ELSE 0,
                     !.content = content,
                     !.buyeruserid = IF found THEN chats[chatId].buyeruserid ELSE "",
                     !.owneruserid = IF found THEN chats[chatId].owneruserid ELSE "",
                     !.pc = IF found THEN "sm_chat" ELSE "sm_nochat"]]
             /\ sent' = <<>>
  /\ UNCHANGED <<chats, messages, now, conn, rooms, joinRows, connectedUsers, unlisted>>

\* the chat query returned no row (handlers.ts:318-321)
SendMessageNoChat(t) ==
  /\ At(t, "sendMessage", "sm_nochat")
  /\ sent' = Delivered(<<ErrorEv(tasks[t].sock, "Conversation not found or unauthorized")>>)
  /\ Finish(t)
  /\ UNCHANGED <<chats, messages, now, conn, rooms, joinRows, connectedUsers, unlisted>>

\* the chat query returned the chat: insert the message (handlers.ts:323-329)
SendMessageInsert(t, at) ==
  /\ At(t, "sendMessage", "sm_chat")
  /\ at \in Clock
  /\ messages' = InsertMessage(tasks[t].chatId, tasks[t].userId, tasks[t].content, at)
  /\ now' = at
  /\ tasks' = [tasks EXCEPT ![t].pc = "sm_msg", ![t].msgId = Len(messages) + 1]
  /\ sent' = <<>>
  /\ unlisted' = unlisted \cup {Len(messages) + 1}
  /\ UNCHANGED <<chats, conn, rooms, joinRows, connectedUsers>>

\* the insert returned: fan the message out, look the recipient's socket up
\* and query the recipient's conversations (handlers.ts:331-392, 208-269)
Inserted(t, kind, pc, nextpc) ==
  /\ At(t, kind, pc)
  /\ LET T == tasks[t]
         recipientUserId == Recipient(T.userId, T.buyeruserid, T.owneruserid)
     IN /\ sent' = Delivered(MessageFanout(T.sock, T.userId, T.msgId, T.chatId))
        /\ \E rows \in ConversationsQuery(recipientUserId) :
           tasks' = [tasks EXCEPT ![t].pc = nextpc,
                                  ![t].recipientUserId = recipientUserId,
                                  ![t].recipientSocketId =
                                     PresenceGet(connectedUsers, recipientUserId),
                                  ![t].rows = rows]
  /\ UNCHANGED <<chats, messages, now, conn, rooms, joinRows, connectedUsers, unlisted>>

\* the sockets the conversations_listed push goes to (handlers.ts:285, 408):
\* the socket id read from connectedUsers before the query
PushTargets(recipientSocketId, recipientUserId) ==
  IF recipientSocketId # NoSocket THEN {recipientSocketId} ELSE {}

\* the acknowledgment that ends the event (handlers.ts:416-419, 293-296):
\* 'event_confirmation', then a bare 'listConversations' packet
NoAcknowledgment(sock, kind) == <<>>
ErrorForAcknowledgment(sock, kind) == <<ErrorEv(sock, "Internal server error")>>
Acknowledgment(sock, kind) ==
  <<Ev(sock, "event_confirmation", kind, 0, <<>>),
    Ev(sock, "listConversations", "", 0, <<>>)>>

\* the conversations query returned: push, confirm (handlers.ts:394-419, 271-296)
Pushed(t, kind, pc) ==
  /\ At(t, kind, pc)
  /\ LET T == tasks[t]
         to == SeqOfSet(PushTargets(T.recipientSocketId, T.recipientUserId))
     IN sent' = Delivered(
          [k \in DOMAIN to |-> ConversationsListed(to[k], T.rows, T.recipientUserId)]
          \o Acknowledgment(T.sock, kind))
  /\ Finish(t)
  /\ UNCHANGED <<chats, messages, now, conn, rooms, joinRows, connectedUsers, unlisted>>

SendMessageInserted(t) == Inserted(t, "sendMessage", "sm_msg", "sm_convs")

SendMessagePushed(t) == Pushed(t, "sendMessage", "sm_convs")

\* --------------------------------------------- createConversationAndMessage
\* the self-chat guard (handlers.ts:185)
OwnProductUnchecked(userId, owneruserid) == FALSE
OwnProduct(userId, owneruserid) == userId = owneruserid

\* 'createConversationAndMessage' arrives (handlers.ts:153-166): verifyUser,
\* validation, then the product query
CreateConversationAndMessage(t, c, productid, content, expired) ==
  /\ Arrives(t, c)
  /\ LET v == verifyUser(TokenAt(c, expired), conn[c].userId) IN
     IF v # "ok" THEN RejectEvent(c, v)
     ELSE
       /\ IF MissingText(productid) \/ MissingText(content)
          THEN /\ sent' = <<ErrorEv(c, "All data is mandatory")>>
               /\ UNCHANGED tasks
          ELSE /\ productid \in DOMAIN products
                    => MayInsert
               /\ tasks' = [tasks EXCEPT ![t] =
                    [Start(t, c, "createConversationAndMessage", "cc_product") EXCEPT
                       !.productid = productid, !.content = content,
                       !.owneruserid = IF productid \in DOMAIN products
                                       THEN products[productid] ELSE "",
                       !.pc = IF productid \in DOMAIN products
                              THEN "cc_product" ELSE "cc_noproduct"]]
               /\ sent' = <<>>
       /\ UNCHANGED <<chats, messages, now, conn, rooms, joinRows, connectedUsers, unlisted>>

\* the product query returned no row (handlers.ts:167-170)
CreateNoProduct(t) ==
  /\ At(t, "createConversationAndMessage", "cc_noproduct")
  /\ sent' = Delivered(<<ErrorEv(tasks[t].sock, "Product not found")>>)
  /\ Finish(t)
  /\ UNCHANGED <<chats, messages, now, conn, rooms, joinRows, connectedUsers, unlisted>>

\* SELECT chatid, buyeruserid, owneruserid FROM chats WHERE productid = $1
\* AND (buyeruserid = $2 OR owneruserid = $2) (handlers.ts:175-178)
ChatsOfProduct(productid, userId) ==
  {i \in ChatIds : chats[i].productid = productid}
ChatsOfProductAndUser(productid, userId) ==
  {i \in ChatIds : chats[i].productid = productid /\ i \in ChatsOfUser(userId)}

\* the product query returned the owner: look an existing chat up
\* (handlers.ts:172-178); rows[0] of a query without ORDER BY is any row
CreateLookup(t, row) ==
  /\ At(t, "createConversationAndMessage", "cc_product")
  /\ LET found == ChatsOfProductAndUser(tasks[t].productid, tasks[t].userId) IN
     /\ row \in IF found = {} THEN {0} ELSE found
     /\ tasks' = [tasks EXCEPT ![t].pc = "cc_chat", ![t].chatId = row,
                               ![t].buyeruserid =
                                  IF row = 0 THEN "" ELSE chats[row].buyeruserid]
  /\ sent' = <<>>
  /\ UNCHANGED <<chats, messages, now, conn, rooms, joinRows, connectedUsers, unlisted>>

\* no chat yet and the caller owns the product (handlers.ts:183-188)
CreateForbidden(t) ==
  /\ At(t, "createConversationAndMessage", "cc_chat")
  /\ tasks[t].chatId = 0
  /\ OwnProduct(tasks[t].userId, tasks[t].owneruserid)
  /\ sent' = Delivered(<<ErrorEv(tasks[t].sock,
                "You cannot create a conversation for your own product")>>)
  /\ Finish(t)
  /\ UNCHANGED <<chats, messages, now, conn, rooms, joinRows, connectedUsers, unlisted>>

\* no chat yet: insert one with the caller as buyer (handlers.ts:190-196)
CreateInsertChat(t, at) ==
  /\ At(t, "createConversationAndMessage", "cc_chat")
  /\ tasks[t].chatId = 0
  /\ ~OwnProduct(tasks[t].userId, tasks[t].owneruserid)
  /\ Len(chats) < MaxChats
  /\ at \in Clock
  /\ chats' = InsertChat(tasks[t].productid, tasks[t].userId, tasks[t].owneruserid, at)
  /\ now' = at
  /\ tasks' = [tasks EXCEPT ![t].pc = "cc_newchat", ![t].chatId = Len(chats) + 1,
                            ![t].buyeruserid = tasks[t].userId, ![t].isNew = TRUE]
  /\ sent' = <<>>
  /\ UNCHANGED <<messages, conn, rooms, joinRows, connectedUsers, unlisted>>

\* the chat is known (found, or just inserted): insert the message
\* (handlers.ts:197-206)
CreateInsertMessage(t, at) ==
  /\ \/ At(t, "createConversationAndMessage", "cc_chat") /\ tasks[t].chatId # 0
     \/ At(t, "createConversationAndMessage", "cc_newchat")
  /\ at \in Clock
  /\ messages' = InsertMessage(tasks[t].chatId, tasks[t].userId, tasks[t].content, at)
  /\ now' = at
  /\ tasks' = [tasks EXCEPT ![t].pc = "cc_msg", ![t].msgId = Len(messages) + 1]
  /\ sent' = <<>>
  /\ UNCHANGED <<chats, conn, rooms, joinRows, connectedUsers, unlisted>>

CreateInserted(t) ==
  Inserted(t, "createConversationAndMessage", "cc_msg", "cc_convs")

CreatePushed(t) == Pushed(t, "createConversationAndMessage", "cc_convs")

\* ----------------------------------------------------------- joinConversation
\* 'joinConversation' arrives (handlers.ts:75-96): verifyUser, then the chat
\* details query
JoinConversation(t, c, chatId, expired) ==
  /\ Arrives(t, c)
  /\ LET v == verifyUser(TokenAt(c, expired), conn[c].userId) IN
     IF v # "ok" THEN RejectEvent(c, v)
     ELSE
       /\ tasks' = [tasks EXCEPT ![t] =
            [Start(t, c, "joinConversation", "jc_chat") EXCEPT
               !.chatId = IF chatId \in ChatIds THEN chatId ELSE 0,
               !.buyeruserid = IF chatId \in ChatIds THEN chats[chatId].buyeruserid ELSE "",
               !.owneruserid = IF chatId \in ChatIds THEN chats[chatId].owneruserid ELSE ""]]
       /\ sent' = <<>>
       /\ UNCHANGED <<chats, messages, now, conn, rooms, joinRows, connectedUsers, unlisted>>

\* the chat details query returned no row (handlers.ts:98-101)
JoinNotFound(t) ==
  /\ At(t, "joinConversation", "jc_chat")
  /\ tasks[t].chatId = 0
  /\ sent' = Delivered(<<ErrorEv(tasks[t].sock, "Conversation not found")>>)
  /\ Finish(t)
  /\ UNCHANGED <<chats, messages, now, conn, rooms, joinRows, connectedUsers, unlisted>>

\* the chat details query returned the chat: load its messages (handlers.ts:103-122)
JoinLoad(t) ==
  /\ At(t, "joinConversation", "jc_chat")
  /\ tasks[t].chatId # 0
  /\ \E rows \in MessagesOfChat(tasks[t].chatId) :
       tasks' = [tasks EXCEPT ![t].pc = "jc_msgs", ![t].rows = rows]
  /\ sent' = <<>>
  /\ UNCHANGED <<chats, messages, now, conn, rooms, joinRows, connectedUsers, unlisted>>

\* isCurrentUserImage / otherUserImage (handlers.ts:106-107)
CurrentUserImage(userId, buyeruserid, owneruserid) ==
  IF userId = buyeruserid THEN profileimageurl(buyeruserid)
                          ELSE profileimageurl(owneruserid)
OtherUserImage(userId, buyeruserid, owneruserid) ==
  IF userId = buyeruserid THEN profileimageurl(owneruserid)
                          ELSE profileimageurl(buyeruserid)

\* formattedMessages of joinConversation (handlers.ts:131-137); a row is the
\* message as it was when the query ran
JoinFormat(rows, userId, buyeruserid, owneruserid) ==
  [k \in DOMAIN rows |->
     [messageId |-> rows[k],
      content |-> messages[rows[k]].content,
      createdAt |-> messages[rows[k]].createdat,
      isCurrentUser |-> IsCurrentUser(messages[rows[k]].senderuserid, userId),
      senderImage |-> IF messages[rows[k]].senderuserid = userId
                      THEN CurrentUserImage(userId, buyeruserid, owneruserid)
                      ELSE OtherUserImage(userId, buyeruserid, owneruserid)]]

\* the messages query returned (handlers.ts:124-145)
JoinListedUnchecked(t) ==
  /\ At(t, "joinConversation", "jc_msgs")
  /\ LET T == tasks[t] IN
     sent' = Delivered(
       <<Ev(T.sock, "messages_listed", "", T.chatId,
            JoinFormat(T.rows, T.userId, T.buyeruserid, T.owneruserid))>>)
  /\ Finish(t)
  /\ UNCHANGED <<chats, messages, now, conn, rooms, joinRows, connectedUsers, unlisted>>
JoinListed(t) ==
  /\ At(t, "joinConversation", "jc_msgs")
  /\ LET T == tasks[t] IN
     sent' = Delivered(
       IF T.rows = <<>>
       THEN <<ErrorEv(T.sock, "No messages found for this chat")>>
       ELSE <<Ev(T.sock, "messages_listed", "", T.chatId,
                 JoinFormat(T.rows, T.userId, T.buyeruserid, T.owneruserid))>>)
  /\ Finish(t)
  /\ UNCHANGED <<chats, messages, now, conn, rooms, joinRows, connectedUsers, unlisted>>

\* --------------------------------------------------------------- listMessages
\* 'listMessages' arrives (handlers.ts:427-449): verifyUser, then the query
ListMessages(t, c, chatId, date, expired) ==
  /\ Arrives(t, c)
  /\ LET v == verifyUser(TokenAt(c, expired), conn[c].userId) IN
     IF v # "ok" THEN RejectEvent(c, v)
     ELSE
       /\ \E rows \in MessagesSince(chatId, date) :
            tasks' = [tasks EXCEPT ![t] =
              [Start(t, c, "listMessages", "lm_rows") EXCEPT
                 !.chatId = chatId, !.rows = rows]]
       /\ sent' = <<>>
       /\ UNCHANGED <<chats, messages, now, conn, rooms, joinRows, connectedUsers, unlisted>>

\* formattedMessages of listMessages (handlers.ts:451-459)
ListFormat(rows, userId) ==
  [k \in DOMAIN rows |->
     [messageId |-> rows[k],
      senderUserId |-> messages[rows[k]].senderuserid,
      content |-> messages[rows[k]].content,
      createdAt |-> messages[rows[k]].createdat,
      isCurrentUser |-> IsCurrentUser(messages[rows[k]].senderuserid, userId),
      senderImage |-> profileimageurl(messages[rows[k]].senderuserid)]]

\* the query returned (handlers.ts:451-464)
ListMessagesListed(t) ==
  /\ At(t, "listMessages", "lm_rows")
  /\ LET T == tasks[t] IN
     sent' = Delivered(<<Ev(T.sock, "messages_listed", "", T.chatId,
                            ListFormat(T.rows, T.userId))>>)
  /\ Finish(t)
  /\ UNCHANGED <<chats, messages, now, conn, rooms, joinRows, connectedUsers, unlisted>>

\* ---------------------------------------------------------- listConversations
\* 'listConversations' arrives (handlers.ts:472-512): verifyUser, then the query
ListConversations(t, c, expired) ==
  /\ Arrives(t, c)
  /\ LET v == verifyUser(TokenAt(c, expired), conn[c].userId) IN
     IF v # "ok" THEN RejectEvent(c, v)
     ELSE
       /\ \E rows \in ConversationsQuery(conn[c].userId) :
            tasks' = [tasks EXCEPT ![t] =
              [Start(t, c, "listConversations", "lc_rows") EXCEPT !.rows = rows]]
       /\ sent' = <<>>
       /\ unlisted' = {m \in unlisted : RecipientOfMessage(m) # conn[c].userId}
       /\ UNCHANGED <<chats, messages, now, conn, rooms, joinRows, connectedUsers>>

\* the query returned (handlers.ts:514-530)
ListConversationsListed(t) ==
  /\ At(t, "listConversations", "lc_rows")
  /\ LET T == tasks[t] IN
     sent' = Delivered(<<ConversationsListed(T.sock, T.rows, T.userId)>>)
  /\ Finish(t)
  /\ UNCHANGED <<chats, messages, now, conn, rooms, joinRows, connectedUsers, unlisted>>

\* ------------------------------------------------------------ store failures
\* a pool.query that fails rejects its promise (or hands err to its callback):
\* the statement has no effect, and the code after the await is skipped for
\* the handler's catch block, which runs as a later step
Events ==
  {"joinConversation", "createConversationAndMessage", "sendMessage",
   "listMessages", "listConversations"}

\* an event arrives with a valid token and complete arguments and the first
\* query of its handler fails (handlers.ts:96, 166, 313, 449, 512)
FirstQueryFails(t, c, kind) ==
  /\ Arrives(t, c)
  /\ kind \in Events
  /\ tasks' = [tasks EXCEPT ![t] = Start(t, c, kind, "failed")]
  /\ sent' = <<>>
  /\ UNCHANGED <<chats, messages, now, conn, rooms, joinRows, connectedUsers, unlisted>>

\* the query that the continuation of handler invocation t issues fails: the
\* message insert of sendMessage (handlers.ts:326), the chat lookup, the chat
\* insert or the message insert of createConversationAndMessage
\* (handlers.ts:175, 191, 203), the messages query of joinConversation
\* (handlers.ts:110)
QueryFailsUndoingChat(t) ==
  /\ tasks[t].pc \in {"sm_chat", "cc_product", "cc_newchat", "cc_chat", "jc_chat"}
  /\ tasks' = [tasks EXCEPT ![t].pc = "failed"]
  /\ chats' = IF tasks[t].pc = "cc_newchat"
              THEN SubSeq(chats, 1, Len(chats) - 1) ELSE chats
  /\ sent' = <<>>
  /\ UNCHANGED <<messages, now, conn, rooms, joinRows, connectedUsers, unlisted>>
QueryFails(t) ==
  /\ \/ tasks[t].pc \in {"sm_chat", "cc_product", "cc_newchat"}
     \/ /\ tasks[t].pc = "cc_chat"
        /\ tasks[t].chatId = 0 => ~OwnProduct(tasks[t].userId, tasks[t].owneruserid)
     \/ tasks[t].pc = "jc_chat" /\ tasks[t].chatId # 0
  /\ tasks' = [tasks EXCEPT ![t].pc = "failed"]
  /\ sent' = <<>>
  /\ UNCHANGED <<chats, messages, now, conn, rooms, joinRows, connectedUsers, unlisted>>

\* the message is stored and fanned out, and then the conversations query
\* fails (handlers.ts:339-392, 216-269)
ConversationsQueryFails(t) ==
  /\ tasks[t].pc \in {"sm_msg", "cc_msg"}
  /\ LET T == tasks[t] IN
     sent' = Delivered(MessageFanout(T.sock, T.userId, T.msgId, T.chatId))
  /\ tasks' = [tasks EXCEPT ![t].pc = "failed"]
  /\ UNCHANGED <<chats, messages, now, conn, rooms, joinRows, connectedUsers, unlisted>>

\* socket.emit('error', { message: 'Internal server error', ... }) of a catch
\* block (handlers.ts:148, 299, 422, 467, 533)
CaughtErrorToAll(sock) ==
  [k \in DOMAIN SeqOfSet(ConnIds) |->
     ErrorEv(SeqOfSet(ConnIds)[k], "Internal server error")]
CaughtError(sock) == <<ErrorEv(sock, "Internal server error")>>

\* the catch block of the handler (handlers.ts:146-149, 297-300, 420-423,
\* 465-468, 531-534)
Caught(t) ==
  /\ tasks[t].pc = "failed"
  /\ sent' = Delivered(CaughtError(tasks[t].sock))
  /\ Finish(t)
  /\ UNCHANGED <<chats, messages, now, conn, rooms, joinRows, connectedUsers, unlisted>>

\* the room query of the connection handler fails (handlers.ts:61-66): the
\* socket joins no room
ConnectRoomQueryFails(c) ==
  /\ joinRows[c].pending
  /\ joinRows' = [joinRows EXCEPT ![c] = [pending |-> FALSE, rows |-> {}]]
  /\ sent' = Delivered(CaughtError(c))
  /\ UNCHANGED <<chats, messages, now, conn, rooms, connectedUsers, tasks, unlisted>>

\* ------------------------------------------------------------ specifications
\* connections come and go: sockets C, handshake cookies K
Lifecycle(C, K) ==
  \/ \E c \in C, tok \in K : Connect(c, tok)
  \/ \E c \in C : ConnectJoinRooms(c)
  \/ \E c \in C : Disconnect(c)

Rejections(C) ==
  \E c \in C, tok \in Tokens : ConnectRejected(c, tok)

SendSteps(T, C) ==
  \/ \E t \in T, c \in C, chatId \in ChatIdInputs, content \in ContentInputs,
        expired \in BOOLEAN :
       SendMessage(t, c, chatId, content, expired)
  \/ \E t \in T : SendMessageNoChat(t)
  \/ \E t \in T, at \in Clock : SendMessageInsert(t, at)
  \/ \E t \in T : SendMessageInserted(t)
  \/ \E t \in T : SendMessagePushed(t)

CreateSteps(T, C) ==
  \/ \E t \in T, c \in C, productid \in ProductIdInputs,
        content \in ContentInputs, expired \in BOOLEAN :
       CreateConversationAndMessage(t, c, productid, content, expired)
  \/ \E t \in T : CreateNoProduct(t)
  \/ \E t \in T, row \in 0..MaxChats : CreateLookup(t, row)
  \/ \E t \in T : CreateForbidden(t)
  \/ \E t \in T, at \in Clock : CreateInsertChat(t, at)
  \/ \E t \in T, at \in Clock : CreateInsertMessage(t, at)
  \/ \E t \in T : CreateInserted(t)
  \/ \E t \in T : CreatePushed(t)

JoinSteps(T, C) ==
  \/ \E t \in T, c \in C, chatId \in 1..MaxChats, expired \in BOOLEAN :
       JoinConversation(t, c, chatId, expired)
  \/ \E t \in T : JoinNotFound(t)
  \/ \E t \in T : JoinLoad(t)
  \/ \E t \in T : JoinListed(t)

ListMessagesSteps(T, C) ==
  \/ \E t \in T, c \in C, chatId \in 1..MaxChats, date \in 0..now,
        expired \in BOOLEAN :
       ListMessages(t, c, chatId, date, expired)
  \/ \E t \in T : ListMessagesListed(t)

ListConversationsSteps(T, C) ==
  \/ \E t \in T, c \in C, expired \in BOOLEAN : ListConversations(t, c, expired)
  \/ \E t \in T : ListConversationsListed(t)

FailureSteps(T, C) ==
  \/ \E t \in T, c \in C, kind \in Events : FirstQueryFails(t, c, kind)
  \/ \E t \in T : QueryFails(t)
  \/ \E t \in T : ConversationsQueryFails(t)
  \/ \E t \in T : Caught(t)
  \/ \E c \in C : ConnectRoomQueryFails(c)

\* the whole server
Next ==
  \/ FailureSteps(TaskIds, ConnIds)
  \/ Lifecycle(ConnIds, Tokens)
  \/ Rejections(ConnIds)
  \/ SendSteps(TaskIds, ConnIds)
  \/ CreateSteps(TaskIds, ConnIds)
  \/ JoinSteps(TaskIds, ConnIds)
  \/ ListMessagesSteps(TaskIds, ConnIds)
  \/ ListConversationsSteps(TaskIds, ConnIds)

Spec == Init /\ [][Next]_vars

\* the presence directory alone: every socket and cookie, no business event
NextPresence == Lifecycle(ConnIds, Tokens) \/ Rejections(ConnIds)
SpecPresence == InitWith({TwoChats}) /\ [][NextPresence]_vars

\* createConversationAndMessage, one event at a time, with the owner A and
\* the buyer B on line (D is known to the store only)
CreateConns == 2
NextCreate ==
  \/ Lifecycle(1..CreateConns, {"A", "B"})
  \/ CreateSteps(1..1, 1..CreateConns)
SpecCreate == Init /\ [][NextCreate]_vars

\* the two events that write: createConversationAndMessage and sendMessage
NextWrite == NextCreate \/ SendSteps(1..1, 1..CreateConns)
SpecWrite == InitWith({EmptyStore, OneChat}) /\ [][NextWrite]_vars

\* overlapping createConversationAndMessage events of one connection
RaceConns == 1
NextRace ==
  \/ Lifecycle(1..RaceConns, {"A", "B"})
  \/ CreateSteps(TaskIds, 1..RaceConns)
SpecRace == InitWith({EmptyStore}) /\ [][NextRace]_vars

\* sendMessage and listConversations, one event at a time, on existing chats
SendConns == 2
NextSend ==
  \/ Lifecycle(1..SendConns, {"A", "B"})
  \/ SendSteps(1..1, 1..SendConns)
  \/ ListConversationsSteps(1..1, 1..SendConns)
SpecSend == InitWith({OneChat, TwoChats}) /\ [][NextSend]_vars

\* one socket that sends and opens chats, one event at a time
ValidateConns == 1
NextValidate ==
  \/ Lifecycle(1..ValidateConns, {"A", "B"})
  \/ SendSteps(1..1, 1..ValidateConns)
  \/ CreateSteps(1..1, 1..ValidateConns)
SpecValidate == InitWith({EmptyStore, OneChat}) /\ [][NextValidate]_vars

\* overlapping sendMessage events of one connection
OrderConns == 1
NextOrder ==
  \/ Lifecycle(1..OrderConns, {"A", "B"})
  \/ SendSteps(TaskIds, 1..OrderConns)
SpecOrder == InitWith({OneChat}) /\ [][NextOrder]_vars

\* every event, one at a time, with store failures; the events are those of
\* the first socket, the later sockets look on
FailConns == 2
NextFail ==
  \/ Lifecycle(1..FailConns, {"A", "B"})
  \/ SendSteps(1..1, 1..1)
  \/ CreateSteps(1..1, 1..1)
  \/ JoinSteps(1..1, 1..1)
  \/ FailureSteps(1..1, 1..1)
SpecFail == InitWith({EmptyStore, OneChat}) /\ [][NextFail]_vars

\* sendMessage alone, one event at a time, on existing chats
NextMessage ==
  \/ Lifecycle(1..SendConns, {"A", "B"})
  \/ SendSteps(1..1, 1..SendConns)
SpecMessage == InitWith({OneChat, TwoChats}) /\ [][NextMessage]_vars

\* messages are sent while participants and a third user read a chat
ReadConns == 2
NextRead ==
  \/ Lifecycle(1..ReadConns, {"A", "B", "D"})
  \/ SendSteps(1..1, 1..ReadConns)
  \/ JoinSteps(1..1, 1..ReadConns)
  \/ ListMessagesSteps(1..1, 1..ReadConns)
SpecRead == InitWith({OneChat}) /\ [][NextRead]_vars

\* one socket sends overlapping messages to a user on another socket
SyncConns == 2
NextSync ==
  \/ Lifecycle(1..SyncConns, {"A", "B"})
  \/ SendSteps(TaskIds, 1..1)
SpecSync == InitWith({OneChat}) /\ [][NextSync]_vars

\* a chat is opened while it is joined, on one socket
JoinConns == 1
NextJoin ==
  \/ Lifecycle(1..JoinConns, {"A", "B"})
  \/ CreateSteps(TaskIds, 1..JoinConns)
  \/ JoinSteps(TaskIds, 1..JoinConns)
SpecJoin == InitWith({EmptyStore}) /\ [][NextJoin]_vars

\* conversations are listed while chats are opened and written, on one socket
ListConns == 1
NextList ==
  \/ Lifecycle(1..ListConns, {"A", "B"})
  \/ CreateSteps(TaskIds, 1..ListConns)
  \/ ListConversationsSteps(TaskIds, 1..ListConns)
SpecList == InitWith({EmptyStore, TwoChats}) /\ [][NextList]_vars

\* the two writing events on one socket, for every user and start-up store
StoreConns == 1
NextStore ==
  \/ Lifecycle(1..StoreConns, Users)
  \/ SendSteps(1..1, 1..StoreConns)
  \/ CreateSteps(1..1, 1..StoreConns)
SpecStore == Init /\ [][NextStore]_vars

\* ------------------------------------------------------------------ claims
Create == "createConversationAndMessage"

\* the message_created events of the last step that carry message msgId
CreatedEvents(msgId) ==
  {k \in DOMAIN sent : sent[k].ev = "message_created"
                        /\ sent[k].data[1].messageId = msgId}

\* C1: when B opens a chat on A's product while A's socket (established before
\* B's) is on line, the chat has buyer B and owner A, and the message_created
\* of the new message reaches B's socket flagged true and A's flagged false.
C1_OwnerReceivesFirstMessage ==
  \A t \in TaskIds :
    LET T == tasks[t] IN
    (At(t, Create, "cc_convs") /\ T.isNew /\ CreatedEvents(T.msgId) # {})
    => /\ chats[T.chatId].buyeruserid = T.userId
       /\ chats[T.chatId].owneruserid = products[T.productid]
       /\ \E k \in CreatedEvents(T.msgId) :
            sent[k].to = T.sock /\ sent[k].data[1].isCurrentUser
       /\ \A a \in ConnIds :
            (a < T.sock /\ Live(a) /\ conn[a].userId = products[T.productid])
            => \E k \in CreatedEvents(T.msgId) :
                 sent[k].to = a /\ ~sent[k].data[1].isCurrentUser

\* C2: the chats table never holds two chats of the same product and buyer.
C2_OneChatPerProductAndBuyer ==
  \A i, j \in ChatIds :
    (chats[i].productid = chats[j].productid
     /\ chats[i].buyeruserid = chats[j].buyeruserid) => i = j

\* C3: a createConversationAndMessage that follows a completed one of the same
\* caller for the same product stores its message in the same chat.
C3_SecondCallReusesChat ==
  \A t \in TaskIds :
    LET T == tasks[t] IN
    (T.kind = Create /\ T.pc \in {"cc_msg", "cc_convs"})
    => \A m \in 1..(T.msgId - 1) :
         (messages[m].senderuserid = T.userId
          /\ chats[messages[m].chatid].productid = T.productid)
         => messages[m].chatid = T.chatId

\* C4: a createConversationAndMessage of the product's owner never gets as
\* far as storing a message (it ends at the Forbidden error instead).
C4_OwnerNeverStores ==
  \A t \in TaskIds :
    (tasks[t].kind = Create /\ tasks[t].userId = tasks[t].owneruserid)
    => tasks[t].pc \notin {"cc_msg", "cc_convs"}

\* C5: no stored chat has its buyer equal to its owner.
C5_BuyerIsNotOwner ==
  \A i \in ChatIds : chats[i].buyeruserid # chats[i].owneruserid

C5_Witness == \E i \in ChatIds : chats[i].createdat > 0

\* C6: in every delivered message_created and messages_listed, isCurrentUser
\* of a message is true exactly when its sender is the receiving socket's user.
C6_FlagMatchesReceiver ==
  \A k \in DOMAIN sent :
    sent[k].ev \in {"message_created", "messages_listed"}
    => \A i \in DOMAIN sent[k].data :
         sent[k].data[i].isCurrentUser
           <=> (messages[sent[k].data[i].messageId].senderuserid
                  = conn[sent[k].to].userId)

\* lookup(userId) of the presence directory, as a set of sockets
Lookup(userId) ==
  IF PresenceGet(connectedUsers, userId) = NoSocket THEN {}
  ELSE {PresenceGet(connectedUsers, userId)}

LiveSockets(userId) == {c \in ConnIds : Live(c) /\ conn[c].userId = userId}

\* C7: lookup(userId) is the set of the user's live sockets.
C7_LookupIsLiveSockets == \A u \in Users : Lookup(u) = LiveSockets(u)

\* C8: when a socket closes, every other live socket that was registered in
\* the presence map stays registered, nothing but an error to the closing
\* socket is sent, and no row changes.
C8_DisconnectRemovesOnlyItsSocket ==
  [][\A c \in ConnIds :
       (Live(c) /\ conn'[c].st = "closed")
       => /\ \A d \in ConnIds \ {c} :
               (Live(d) /\ PresenceGet(connectedUsers, conn[d].userId) = d)
               => PresenceGet(connectedUsers', conn[d].userId) = d
          /\ \A k \in DOMAIN sent' : sent'[k].ev = "error" /\ sent'[k].to = c
          /\ chats' = chats /\ messages' = messages]_vars

\* C9: the conversations_listed push of sendMessage and
\* createConversationAndMessage reaches every socket of the recipient that is
\* live when the push is made.
C9_PushReachesEveryLiveSocket ==
  [][\A t \in TaskIds :
       (tasks[t].pc \in {"sm_convs", "cc_convs"} /\ tasks'[t] = IdleTask)
       => \A c \in LiveSockets(tasks[t].recipientUserId) :
            \E k \in DOMAIN sent' :
              sent'[k].to = c /\ sent'[k].ev = "conversations_listed"]_vars

\* the step in which a listConversations event runs its query
ListQueryStep(t) ==
  tasks[t].kind = "idle" /\ tasks'[t].kind = "listConversations"

\* the messages sendMessage stored for user u that u has not listed since
UnlistedFor(u) == {m \in unlisted : RecipientOfMessage(m) = u}

\* the message most recently stored in its chat
JustSent(m) ==
  \A n \in MessageIds : messages[n].chatid = messages[m].chatid => n <= m

\* C10: when the message most recently stored in a chat was stored by
\* sendMessage, the recipient's next listConversations has a row for the chat
\* whose lastMessage and lastMessageDate are those of that message.
C10_NextListShowsSentMessage ==
  [][\A t \in TaskIds :
       ListQueryStep(t)
       => LET listed == FormatConversations(tasks'[t].rows, tasks'[t].userId) IN
          \A m \in UnlistedFor(tasks'[t].userId) :
            JustSent(m)
            => \E k \in DOMAIN listed :
                 /\ listed[k].chatId = messages[m].chatid
                 /\ listed[k].lastMessage = messages[m].content
                 /\ listed[k].lastMessageDate = messages[m].createdat]_vars

NotFoundOrUnauthorized == "Conversation not found or unauthorized"

\* user u is the buyer or the owner of the stored chat chatId
Participant(u, chatId) ==
  chatId \in ChatIds
  /\ u \in {chats[chatId].buyeruserid, chats[chatId].owneruserid}

\* C11: a sendMessage with complete arguments for a chat that is not stored,
\* or of which the caller is neither buyer nor owner, writes nothing and emits
\* nothing when it arrives, and its continuation ends the event with the one
\* error "Conversation not found or unauthorized" to the caller: no message
\* row, no message_created, no conversations_listed.
C11_NonParticipantIsRejected ==
  [][/\ \A t \in TaskIds, c \in ConnIds, chatId \in ChatIdInputs \ {0} :
          (/\ Arrives(t, c)
           /\ ~Participant(conn[c].userId, chatId)
           /\ \E content \in Contents, expired \in BOOLEAN :
                SendMessage(t, c, chatId, content, expired))
          => /\ tasks'[t].kind = "sendMessage" /\ tasks'[t].pc = "sm_nochat"
             /\ sent' = <<>>
             /\ chats' = chats /\ messages' = messages
     /\ \A t \in TaskIds :
          (At(t, "sendMessage", "sm_nochat") /\ tasks'[t] # tasks[t])
          => /\ tasks'[t] = IdleTask
             /\ chats' = chats /\ messages' = messages
             /\ sent' = IF Live(tasks[t].sock)
                        THEN <<ErrorEv(tasks[t].sock, NotFoundOrUnauthorized)>>
                        ELSE <<>>]_vars

\* B, who takes no part in chat 2, has been refused
C11_Witness ==
  /\ Len(chats) = 2
  /\ \E k \in DOMAIN sent :
       /\ sent[k].message = NotFoundOrUnauthorized
       /\ conn[sent[k].to].userId = "B"

\* the texts an event may carry, the missing one included
ContentArgs == Contents \cup {""}

\* the step answers socket c with the validation error and does nothing else
ValidationError(c) ==
  /\ sent' = <<ErrorEv(c, "All data is mandatory")>>
  /\ UNCHANGED <<chats, messages, conn, connectedUsers, rooms, tasks>>

\* a createConversationAndMessage without productid or without content
CreateWithMissingData(t, c, expired) ==
  \E productid \in ProductIdInputs, content \in ContentArgs :
    /\ productid = "" \/ content = ""
    /\ CreateConversationAndMessage(t, c, productid, content, expired)

\* a sendMessage without chatId or without content
SendWithMissingData(t, c) ==
  \E chatId \in ChatIdInputs, content \in ContentArgs, expired \in BOOLEAN :
    /\ chatId = 0 \/ content = ""
    /\ SendMessage(t, c, chatId, content, expired)

\* C12 as claimed: a sendMessage or createConversationAndMessage with a
\* missing argument is answered with the validation error, stores nothing,
\* emits nothing else and leaves the socket open and registered.
C12_MissingDataIsValidationError ==
  [][\A t \in TaskIds, c \in ConnIds :
       (SendWithMissingData(t, c)
        \/ \E expired \in BOOLEAN : CreateWithMissingData(t, c, expired))
       => ValidationError(c)]_vars

\* C12 as amended: the same, for createConversationAndMessage only when the
\* socket's token has not expired (sendMessage does not look at the token).
C12_MissingDataWithValidToken ==
  [][\A t \in TaskIds, c \in ConnIds :
       (SendWithMissingData(t, c) \/ CreateWithMissingData(t, c, FALSE))
       => ValidationError(c)]_vars

\* a validation error has been delivered to a socket that is still open and
\* registered
C12_Witness ==
  \E k \in DOMAIN sent :
    /\ sent[k].message = "All data is mandatory"
    /\ Live(sent[k].to)
    /\ PresenceGet(connectedUsers, conn[sent[k].to].userId) = sent[k].to

\* a business event arrives on socket c whose token has expired
EventWithExpiredToken(t, c) ==
  \/ \E chatId \in ChatIdInputs : JoinConversation(t, c, chatId, TRUE)
  \/ \E productid \in ProductIdInputs, content \in ContentArgs :
       CreateConversationAndMessage(t, c, productid, content, TRUE)
  \/ \E chatId \in ChatIdInputs, content \in ContentArgs :
       SendMessage(t, c, chatId, content, TRUE)
  \/ \E chatId \in ChatIdInputs, date \in 0..now :
       ListMessages(t, c, chatId, date, TRUE)
  \/ ListConversations(t, c, TRUE)

\* C13: a business event that arrives on a socket whose token has expired
\* closes the socket, starts no handler work (so no store write follows), and
\* emits nothing but the error to that socket.
C13_ExpiredTokenStopsEvent ==
  [][\A t \in TaskIds, c \in ConnIds :
       EventWithExpiredToken(t, c)
       => /\ conn'[c].st = "closed"
          /\ tasks' = tasks
          /\ chats' = chats /\ messages' = messages
          /\ \A k \in DOMAIN sent' : sent'[k].ev = "error" /\ sent'[k].to = c]_vars

\* the connection handler runs for a handshake on socket c with cookie tok
Handshake(c, tok) == Connect(c, tok) \/ ConnectRejected(c, tok)

\* C14: a handshake without a token or with a token that does not verify is
\* answered with an error only: the presence map, the rooms, the pending room
\* queries, the handlers in flight and the store are as before, and the socket
\* is not established (no event of it is ever handled).
C14_RejectedHandshakeLeavesNoState ==
  [][\A c \in ConnIds, tok \in Tokens :
       (tok \notin Users /\ Handshake(c, tok))
       => /\ UNCHANGED <<connectedUsers, rooms, joinRows, tasks, chats, messages>>
          /\ ~Live(c)'
          /\ Len(sent') = 1
          /\ sent'[1].to = c /\ sent'[1].ev = "error"]_vars

\* a handshake has been refused while another user was registered
C14_Witness ==
  /\ \E k \in DOMAIN sent :
       /\ sent[k].message \in {"Unauthorized. Token not found",
                               "Unauthorized. Invalid token"}
       /\ ~Live(sent[k].to)
  /\ \E u \in Users : PresenceGet(connectedUsers, u) # NoSocket

Mutating == {"sendMessage", "createConversationAndMessage"}

\* a sendMessage or createConversationAndMessage with complete arguments
\* arrives on socket c and the engine begins to process it
MutatingEventBegins(t, c) ==
  \/ \E chatId \in ChatIdInputs \ {0}, content \in Contents, expired \in BOOLEAN :
       SendMessage(t, c, chatId, content, expired)
  \/ \E productid \in ProductIdInputs \ {""}, content \in Contents,
        expired \in BOOLEAN :
       CreateConversationAndMessage(t, c, productid, content, expired)

\* the handler invocation u will or did insert a message that it has not yet
\* broadcast to the room
BeforeBroadcast(u) ==
  \/ tasks[u].pc \in {"sm_chat", "sm_msg", "cc_newchat", "cc_msg"}
  \/ tasks[u].pc = "cc_chat" /\ tasks[u].chatId # 0

\* C15: when the engine begins to process a mutating event of a connection,
\* no earlier mutating event of that connection is still before its message
\* insert or its room broadcast.
C15_EventsOfAConnectionDoNotOverlap ==
  [][\A t \in TaskIds, c \in ConnIds :
       MutatingEventBegins(t, c)
       => \A u \in TaskIds :
            (tasks[u].kind \in Mutating /\ tasks[u].sock = c)
            => ~BeforeBroadcast(u)]_vars

\* the step in which handler invocation t makes its conversations_listed push
\* and acknowledges the event
PushStep(t) ==
  tasks[t].pc \in {"sm_convs", "cc_convs"} /\ tasks'[t] = IdleTask

\* C16: when the push is made for a recipient who has no live socket, the
\* step delivers no conversations_listed and no error, delivers nothing to
\* any socket but the caller's, acknowledges the event to the caller if it is
\* still connected, and leaves presence, rooms, chats and messages as they were.
C16_PushToAbsentUserIsDropped ==
  [][\A t \in TaskIds :
       (PushStep(t) /\ LiveSockets(tasks[t].recipientUserId) = {})
       => /\ \A k \in DOMAIN sent' :
               /\ sent'[k].ev \notin {"conversations_listed", "error"}
               /\ sent'[k].to = tasks[t].sock
          /\ Live(tasks[t].sock)
             => \E k \in DOMAIN sent' : sent'[k].ev = "event_confirmation"
          /\ UNCHANGED <<connectedUsers, rooms, chats, messages>>]_vars

\* an event has been acknowledged while its caller's socket was the only live
\* one and the recipient's socket had closed
C16_Witness ==
  /\ \E k \in DOMAIN sent :
       /\ sent[k].ev = "event_confirmation"
       /\ \A d \in ConnIds : Live(d) => d = sent[k].to
  /\ \E d \in ConnIds : conn[d].st = "closed"

InternalError == "Internal server error"

\* the one error a failure is reported with, if its socket is still connected
ErrorTo(c) == IF Live(c) THEN <<ErrorEv(c, InternalError)>> ELSE <<>>

ListedToAllSocketsOf(u) ==
  \A c \in LiveSockets(u) :
    \E k \in DOMAIN sent' :
      sent'[k].to = c /\ sent'[k].ev = "conversations_listed"

\* C18: the push that ends a successful createConversationAndMessage delivers
\* a conversations_listed to the live sockets of the sender and to the live
\* sockets of the recipient.
C18_CreatePushesToBothParticipants ==
  [][\A t \in TaskIds :
       (tasks[t].pc = "cc_convs" /\ tasks'[t] = IdleTask)
       => /\ ListedToAllSocketsOf(tasks[t].userId)
          /\ ListedToAllSocketsOf(tasks[t].recipientUserId)]_vars

\* handler invocation t, whose message is stored, ends in this step with its
\* caller still connected
EndsAfterInsert(t) ==
  tasks[t].msgId # 0 /\ tasks'[t] = IdleTask /\ Live(tasks[t].sock)

Confirmed(c) ==
  /\ \E k \in DOMAIN sent' : sent'[k].to = c /\ sent'[k].ev = "event_confirmation"
  /\ \A k \in DOMAIN sent' : sent'[k].to = c => sent'[k].ev # "error"

FanoutStep(t) ==
  tasks[t].pc \in {"sm_msg", "cc_msg"} /\ tasks'[t].pc # tasks[t].pc

\* the copies of message m with the given flag that socket c receives in
\* this step
Copies(c, m, flag) ==
  {k \in DOMAIN sent' :
     /\ sent'[k].ev = "message_created"
     /\ sent'[k].to = c
     /\ sent'[k].data[1].messageId = m
     /\ sent'[k].data[1].isCurrentUser = flag}

\* C20: a sendMessage or createConversationAndMessage that stored its message
\* gives the sending socket, while connected, exactly one message_created
\* flagged true and none flagged false, and every other connected socket of
\* the chat's room exactly one flagged false; sockets outside the room get
\* none, each stored message is fanned out in one step only, and no other step
\* emits message_created.
C20_OneCopyPerSocket ==
  [][/\ \A t \in TaskIds :
          FanoutStep(t)
          => \A c \in ConnIds :
               /\ Cardinality(Copies(c, tasks[t].msgId, TRUE))
                    = IF c = tasks[t].sock /\ Live(c) THEN 1 ELSE 0
               /\ Cardinality(Copies(c, tasks[t].msgId, FALSE))
                    = IF c # tasks[t].sock /\ Live(c) /\ tasks[t].chatId \in rooms[c]
                      THEN 1 ELSE 0
     /\ \A k \in DOMAIN sent' :
          sent'[k].ev = "message_created"
          => \E t \in TaskIds :
               FanoutStep(t) /\ tasks[t].msgId = sent'[k].data[1].messageId
     /\ \A t \in TaskIds :
          (tasks'[t].pc \in {"sm_msg", "cc_msg"} /\ tasks'[t].pc # tasks[t].pc)
          => tasks'[t].msgId \in DOMAIN messages' \ DOMAIN messages]_vars

\* one message has reached its sender's socket flagged true and another
\* socket of the room flagged false
C20_Witness ==
  \E j, k \in DOMAIN sent :
    /\ sent[j].ev = "message_created" /\ sent[k].ev = "message_created"
    /\ sent[j].to # sent[k].to
    /\ sent[j].data[1].messageId = sent[k].data[1].messageId
    /\ sent[j].data[1].isCurrentUser /\ ~sent[k].data[1].isCurrentUser
    /\ sent[k].chatId \in rooms[sent[j].to]

\* the step in which invocation t computes its recipient (handlers.ts:352, 229)
RecipientStep(t) ==
  tasks[t].pc \in {"sm_msg", "cc_msg"} /\ tasks'[t].pc \in {"sm_convs", "cc_convs"}

\* C21: the recipient that sendMessage and createConversationAndMessage
\* compute is a participant of the chat their message was appended to and is
\* not the caller, and every conversations_listed these events push goes to a
\* socket of that recipient, in the step that ends the event, with the list
\* formatted for the recipient.
C21_PushGoesToTheOtherParticipant ==
  [][/\ \A t \in TaskIds :
          RecipientStep(t)
          => /\ messages[tasks[t].msgId].chatid = tasks[t].chatId
             /\ Participant(tasks'[t].recipientUserId, tasks[t].chatId)
             /\ tasks'[t].recipientUserId # tasks[t].userId
     /\ \A k \in DOMAIN sent' :
          sent'[k].ev = "conversations_listed"
          => \E t \in TaskIds :
               /\ PushStep(t)
               /\ conn[sent'[k].to].userId = tasks[t].recipientUserId
               /\ sent'[k].to # tasks[t].sock
               /\ sent'[k].data = FormatConversations(tasks[t].rows,
                                                      tasks[t].recipientUserId)]_vars

\* a push has reached the recipient's socket while the caller was confirmed
C21_Witness ==
  \E j, k \in DOMAIN sent :
    /\ sent[j].ev = "conversations_listed"
    /\ sent[k].ev = "event_confirmation"
    /\ conn[sent[j].to].userId # conn[sent[k].to].userId

\* C22: the messages of every messages_listed payload, of joinConversation
\* and of listMessages, are in non-decreasing order of creation time.
C22_ListedInCreationOrder ==
  \A k \in DOMAIN sent :
    sent[k].ev = "messages_listed"
    => \A i, j \in DOMAIN sent[k].data :
         i < j => sent[k].data[i].createdAt <= sent[k].data[j].createdAt

\* a listing holds two messages created at different times
C22_Witness ==
  \E k \in DOMAIN sent :
    /\ sent[k].ev = "messages_listed"
    /\ \E i, j \in DOMAIN sent[k].data :
         sent[k].data[i].createdAt < sent[k].data[j].createdAt

\* joinConversation of invocation t ends with the chat's messages listed to
\* its socket, whose connect-time room query has been answered
JoinSucceeds(t) ==
  /\ At(t, "joinConversation", "jc_msgs")
  /\ tasks'[t] = IdleTask
  /\ ~joinRows[tasks[t].sock].pending
  /\ \E k \in DOMAIN sent' :
       sent'[k].ev = "messages_listed" /\ sent'[k].to = tasks[t].sock

\* C23 as claimed: a joinConversation that lists a chat leaves its socket in
\* the chat's room, and a joinConversation of a socket already in the room
\* leaves the socket's rooms unchanged.
C23_JoinConversationJoinsTheRoom ==
  [][\A t \in TaskIds :
       JoinSucceeds(t)
       => /\ tasks[t].chatId \in rooms'[tasks[t].sock]
          /\ tasks[t].chatId \in rooms[tasks[t].sock] => rooms' = rooms]_vars

\* C24 as claimed: a message stored in a chat is broadcast to every live
\* socket of the chat's other participant, the chat being older than the
\* socket.
C24_EstablishedSocketsReceiveBroadcast ==
  [][\A t \in TaskIds :
       (FanoutStep(t) /\ chats[tasks[t].chatId].createdat = 0)
       => \A c \in ConnIds :
            (/\ Live(c)
             /\ conn[c].userId # tasks[t].userId
             /\ Participant(conn[c].userId, tasks[t].chatId))
            => \E k \in DOMAIN sent' :
                 /\ sent'[k].to = c
                 /\ sent'[k].ev = "message_created"
                 /\ sent'[k].data[1].messageId = tasks[t].msgId]_vars

\* C25 as claimed: a conversations_listed pushed when no other sendMessage is
\* in flight, the last push of a burst, is the recipient's list as the store
\* has it then.
C25_LastPushIsCurrent ==
  [][\A t \in TaskIds :
       (PushStep(t) /\ \A u \in TaskIds \ {t} : FreeTask(u))
       => \A k \in DOMAIN sent' :
            sent'[k].ev = "conversations_listed"
            => \E r \in ConversationsQuery(tasks[t].recipientUserId) :
                 sent'[k].data = FormatConversations(r, tasks[t].recipientUserId)]_vars

\* invocation t takes a step after its socket has closed
StepOfClosedSocket(t) ==
  /\ tasks[t].kind # "idle"
  /\ ~Live(tasks[t].sock)
  /\ tasks'[t] # tasks[t]

\* C26: no event is delivered to a socket that has closed; the stored rows
\* stay as they are when a handler goes on after its socket closed, and it
\* still inserts its message, broadcasts it to the live sockets of the room
\* and pushes the list to the recipient's socket.
C26_NothingIsDeliveredAfterDisconnect ==
  [][/\ \A k \in DOMAIN sent' : Live(sent'[k].to)
     /\ \A m \in MessageIds : m \in DOMAIN messages' /\ messages'[m] = messages[m]
     /\ \A i \in ChatIds : i \in DOMAIN chats' /\ chats'[i] = chats[i]
     /\ \A t \in TaskIds :
          StepOfClosedSocket(t)
          => /\ tasks[t].pc = "sm_chat" /\ tasks[t].chatId # 0
                => Len(messages') = Len(messages) + 1
             /\ FanoutStep(t)
                => \A c \in BroadcastTargets(tasks[t].chatId, tasks[t].sock) :
                     Cardinality(Copies(c, tasks[t].msgId, FALSE)) = 1
             /\ PushStep(t)
                => \A c \in ConnIds :
                     (Live(c) /\ c = tasks[t].recipientSocketId)
                     => \E k \in DOMAIN sent' :
                          sent'[k].to = c /\ sent'[k].ev = "conversations_listed"]_vars

\* a sender's socket closed before its message was stored, and the message
\* has been stored and broadcast to another socket since
C26_Witness ==
  \E t \in TaskIds, k \in DOMAIN sent :
    /\ tasks[t].pc = "sm_convs"
    /\ ~Live(tasks[t].sock)
    /\ sent[k].ev = "message_created"
    /\ sent[k].data[1].messageId = tasks[t].msgId

\* a joinConversation invocation takes a step
JoinStep(t) == tasks[t].kind = "joinConversation" /\ tasks'[t] # tasks[t]

NoMessages == "No messages found for this chat"

\* C27: a joinConversation with a valid token for a chat that is not stored
\* ends with the error "Conversation not found", one for a stored chat without
\* messages with the error "No messages found for this chat", any other with
\* messages_listed; every event of its steps goes to the requesting socket,
\* which stays open and registered, and no step changes a chat row, a message
\* row, the presence map or a room.
C27_JoinReportsNotFoundAndNoMessages ==
  [][/\ \A t \in TaskIds, c \in ConnIds, chatId \in 1..MaxChats :
          JoinConversation(t, c, chatId, FALSE)
          => /\ tasks'[t].chatId = 0 <=> chatId \notin ChatIds
             /\ tasks'[t].chatId # 0 => tasks'[t].chatId = chatId
     /\ \A t \in TaskIds :
          JoinStep(t)
          => /\ UNCHANGED <<chats, messages, connectedUsers, conn, rooms>>
             /\ \A k \in DOMAIN sent' : sent'[k].to = tasks[t].sock
             /\ (tasks[t].pc = "jc_chat" /\ tasks[t].chatId = 0)
                => /\ tasks'[t] = IdleTask
                   /\ Live(tasks[t].sock)
                      => sent' = <<ErrorEv(tasks[t].sock, "Conversation not found")>>
             /\ (tasks[t].pc = "jc_chat" /\ tasks[t].chatId # 0)
                => (tasks'[t].rows = <<>>
                      <=> \A m \in MessageIds : messages[m].chatid # tasks[t].chatId)
             /\ (tasks[t].pc = "jc_msgs" /\ Live(tasks[t].sock))
                => /\ tasks'[t] = IdleTask
                   /\ IF tasks[t].rows = <<>>
                      THEN sent' = <<ErrorEv(tasks[t].sock, NoMessages)>>
                      ELSE /\ Len(sent') = 1
                           /\ sent'[1].ev = "messages_listed"
                           /\ sent'[1].chatId = tasks[t].chatId]_vars

\* a chat without messages was joined and reported so to the live socket
C27_Witness ==
  \E c \in ConnIds :
    /\ Live(c)
    /\ connectedUsers[conn[c].userId] = c
    /\ sent = <<ErrorEv(c, NoMessages)>>
    /\ ChatIds # {}

\* C28 as claimed: in every messages_listed of joinConversation the
\* senderImage of a message is the profile image of the user who sent it.
C28_SenderImageIsTheSendersImage ==
  [][\A t \in TaskIds :
       (JoinStep(t) /\ tasks[t].pc = "jc_msgs")
       => \A k \in DOMAIN sent' :
            sent'[k].ev = "messages_listed"
            => \A i \in DOMAIN sent'[k].data :
                 sent'[k].data[i].senderImage
                   = profileimageurl(
                       messages[sent'[k].data[i].messageId].senderuserid)]_vars

\* the chats user u takes part in, and the messages of a chat
ChatsWith(u) == {i \in ChatIds : u \in {chats[i].buyeruserid, chats[i].owneruserid}}
StoredIn(i) == {m \in MessageIds : messages[m].chatid = i}

\* row r is the summary of its chat as the store has it
SummaryOfChat(r) ==
  IF StoredIn(r.chatid) = {}
  THEN /\ r.last_message = "No messages yet"
       /\ r.last_message_date = chats[r.chatid].createdat
  ELSE \E m \in StoredIn(r.chatid) :
         /\ \A n \in StoredIn(r.chatid) : messages[n].createdat <= messages[m].createdat
         /\ r.last_message = messages[m].content
         /\ r.last_message_date = messages[m].createdat

C30_ListMessagesSinceDate ==
  [][\A t \in TaskIds :
       (FreeTask(t) /\ tasks'[t].pc = "lm_rows")
       => \A c \in ConnIds, chatId \in 1..MaxChats, date \in 0..now :
            ListMessages(t, c, chatId, date, FALSE)
            => {tasks'[t].rows[k] : k \in DOMAIN tasks'[t].rows}
                 = {m \in MessageIds : /\ messages[m].chatid = chatId
                                       /\ messages[m].createdat >= date}]_vars

\* C31: no step removes a chat row or a message row, and no step changes the
\* product, buyer, owner or creation time of a stored chat or the chat, sender,
\* content or creation time of a stored message.
C31_ChatsAndMessagesAreAppendOnly ==
  [][/\ Len(chats') >= Len(chats)
     /\ Len(messages') >= Len(messages)
     /\ \A i \in DOMAIN chats : chats'[i] = chats[i]
     /\ \A m \in DOMAIN messages : messages'[m] = messages[m]]_vars

\* two messages were stored on top of a stored message
C31_Witness ==
  /\ \E m \in MessageIds : messages[m].createdat = 0
  /\ NewMessages = MaxMessages

\* C32 as claimed: in every messages_listed payload, messages with equal
\* creation time are in the order of their identifiers.
C32_TiesAreInInsertionOrder ==
  \A k \in DOMAIN sent :
    sent[k].ev = "messages_listed"
    => \A i, j \in DOMAIN sent[k].data :
         (i < j /\ sent[k].data[i].createdAt = sent[k].data[j].createdAt)
         => sent[k].data[i].messageId < sent[k].data[j].messageId

\* C33: the sender of every stored message is the buyer or the owner of the
\* message's chat.
C33_SenderTakesPartInTheChat ==
  \A m \in MessageIds :
    /\ messages[m].chatid \in ChatIds
    /\ messages[m].senderuserid \in {chats[messages[m].chatid].buyeruserid,
                                     chats[messages[m].chatid].owneruserid}

\* a user has stored a message and has been refused for the chat of another
C33_Witness ==
  /\ \E m \in MessageIds : messages[m].createdat > 0
  /\ \E k \in DOMAIN sent :
       /\ sent[k].ev = "error"
       /\ sent[k].message = NotFoundOrUnauthorized
       /\ \E i \in ChatIds : ~Participant(conn[sent[k].to].userId, i)

C35_NoChatWithoutMessage ==
  (\A t \in TaskIds : FreeTask(t))
  => \A i \in ChatIds : \E m \in MessageIds : messages[m].chatid = i

\* the message insert of createConversationAndMessage, issued by invocation t
\* after it inserted a new chat, returns or fails
NewChatInsertEnds(t) ==
  At(t, "createConversationAndMessage", "cc_newchat") /\ tasks'[t] # tasks[t]

\* C35 as amended: the event is not atomic. When the message insert fails
\* after a new chat row was inserted, the chat row stays, without a message,
\* and the caller is sent "Internal server error"; when it succeeds the new
\* chat has a message.
C35_FailedInsertLeavesTheChat ==
  [][/\ \A t \in TaskIds :
          NewChatInsertEnds(t)
          => IF tasks'[t].pc = "failed"
             THEN /\ chats' = chats
                  /\ messages' = messages
                  /\ tasks[t].chatId \in ChatIds
                  /\ \A m \in MessageIds : messages[m].chatid # tasks[t].chatId
             ELSE \E m \in DOMAIN messages' : messages'[m].chatid = tasks[t].chatId
     /\ \A t \in TaskIds :
          (tasks[t].pc = "failed" /\ tasks'[t] # tasks[t])
          => /\ chats' = chats
             /\ messages' = messages
             /\ Live(tasks[t].sock)
                => sent' = <<ErrorEv(tasks[t].sock, InternalError)>>]_vars

\* no event is in flight and a chat opened by an event has no message
C35_Witness ==
  /\ \A t \in TaskIds : FreeTask(t)
  /\ \E i \in ChatIds :
       /\ chats[i].createdat > 0
       /\ \A m \in MessageIds : messages[m].chatid # i
  /\ \E k \in DOMAIN sent : sent[k].ev = "error" /\ sent[k].message = InternalError

\* C36 as claimed: the lookup of createConversationAndMessage can return one
\* chat only, so two runs from one state use the same chat.
C36_LookupDeterminesTheChat ==
  \A t \in TaskIds, row1 \in 0..MaxChats, row2 \in 0..MaxChats :
    (ENABLED CreateLookup(t, row1) /\ ENABLED CreateLookup(t, row2))
    => row1 = row2

\* a sendMessage or createConversationAndMessage event is taken up by
\* invocation t
WritingEventBegins(t) == FreeTask(t) /\ tasks'[t].kind \in Mutating

\* invocation t ends its event
EventEnds(t) == ~FreeTask(t) /\ tasks'[t] = IdleTask

\* C37: an invocation keeps the content of its event and the user of its
\* socket's handshake; a step stores at most one message row, and a row is
\* stored only by an invocation that has stored none, in the chat the event is
\* for, with that user and that content; an event that ends confirmed has
\* stored its row, and an event that is refused has stored none (an event cut
\* short by a failing query has stored one row or none).
C37_OneRowPerSuccessfulEvent ==
  [][/\ \A t \in TaskIds :
          WritingEventBegins(t)
          => /\ tasks'[t].userId = conn[tasks'[t].sock].userId
             /\ tasks'[t].msgId = 0
             /\ messages' = messages
             /\ \A c \in ConnIds, content \in ContentInputs :
                  /\ \A chatId \in ChatIdInputs :
                       SendMessage(t, c, chatId, content, FALSE)
                       => /\ tasks'[t].content = content
                          /\ tasks'[t].chatId \in {0, chatId}
                  /\ \A productid \in ProductIdInputs :
                       CreateConversationAndMessage(t, c, productid, content, FALSE)
                       => /\ tasks'[t].content = content
                          /\ tasks'[t].productid = productid
     /\ Len(messages') \in {Len(messages), Len(messages) + 1}
     /\ Len(messages') = Len(messages) + 1
        => \E t \in TaskIds :
             /\ tasks[t].kind \in Mutating
             /\ tasks[t].msgId = 0
             /\ tasks'[t].msgId = Len(messages')
             /\ tasks[t].chatId \in DOMAIN chats'
             /\ tasks[t].kind = Create
                => chats'[tasks[t].chatId].productid = tasks[t].productid
             /\ messages'[Len(messages')].chatid = tasks[t].chatId
             /\ messages'[Len(messages')].senderuserid = tasks[t].userId
             /\ messages'[Len(messages')].content = tasks[t].content
     /\ \A t \in TaskIds :
          (EventEnds(t) /\ tasks[t].kind \in Mutating)
          => /\ messages' = messages
             /\ tasks[t].pc # "failed"
                => (tasks[t].msgId # 0 <=> tasks[t].pc \in {"sm_convs", "cc_convs"})
             /\ tasks[t].pc \in {"sm_convs", "cc_convs"}
                => \A k \in DOMAIN sent' : sent'[k].ev # "error"
             /\ (tasks[t].msgId = 0 /\ Live(tasks[t].sock))
                => Len(sent') = 1 /\ sent'[1].ev = "error"
     /\ (\E k \in DOMAIN sent' : sent'[k].ev = "error") => messages' = messages]_vars

\* one event has stored one row and has been confirmed
C37_Witness ==
  \E k \in DOMAIN sent :
    /\ sent[k].ev = "event_confirmation"
    /\ sent[k].message = Create
    /\ NewMessages = 1

\* C38: every entry of connectedUsers holds a socket that is live and whose
\* handshake was for the entry's user.
C38_PresenceEntriesAreLiveSocketsOfTheUser ==
  \A u \in Users :
    PresenceGet(connectedUsers, u) # NoSocket
    => /\ PresenceGet(connectedUsers, u) \in ConnIds
       /\ Live(PresenceGet(connectedUsers, u))
       /\ conn[PresenceGet(connectedUsers, u)].userId = u

\* a user is registered after two sockets have closed
C38_Witness ==
  \E u \in Users, c, d \in ConnIds :
    /\ c # d
    /\ conn[c].st = "closed" /\ conn[d].st = "closed"
    /\ PresenceGet(connectedUsers, u) # NoSocket
====
